---- MODULE Spec2Model ----
(***************************************************************************)
(* Quota-constrained rotation scraper: rotation scheduler, quota ledger,   *)
(* scraper orchestrator, outlier scorer and the outlier / snapshot /       *)
(* tracked-channel tables, as a state machine.                             *)
(*                                                                         *)
(* Time is counted in whole hours since an epoch that falls on midnight    *)
(* UTC.  Every await of the program is a suspension point: an async call   *)
(* chain (a scheduler tick, a forced run, a manual scrape) is a process    *)
(* whose pc names the await it is suspended at.  The code between two      *)
(* awaits runs atomically, as it does on the JavaScript event loop.        *)
(***************************************************************************)
EXTENDS Integers, Sequences, FiniteSets, TLC

\* ------------------------------------------------------------------------
\* Bounds of the model
\* ------------------------------------------------------------------------
NumProcs == 2
MaxTime == 6
TimeStep == 6
MaxCalls == 3
MaxFaults == 1
MaxSeqCalls == 2
MaxSeqFaults == 1
MaxBatchCalls == 1
MaxBatchFaults == 1
MaxVideos == 2
RotateBatchSize == 1
MaxLedgerOps == 3
MaxScrapeFaults == 2
LongListLen == 6
MaxLongFaults == 1

Procs == 1..NumProcs
ChannelIds == {"c1", "c2"}
VideoIds == {"v1", "v2", "v3", "v4", "v5", "v6", "v7", "v8", "v9"}

\* ------------------------------------------------------------------------
\* Program constants
\* ------------------------------------------------------------------------
QuotaLimit == 10000
QuotaFloor == 100
OperationsCap == 100
BatchSize == 25
IntervalHours == 6
MinOutlierScore == 6
MaxVideosPerChannel == 5
DefaultAvgViews == 10000
DefaultOutlierPriority == 5
HoursPerDay == 24
HoursPerWeek == 168

NoTime == 0 - 1
None == <<>>
Some(x) == <<x>>

\* ------------------------------------------------------------------------
\* Exact rational arithmetic for the scorer (JavaScript numbers are used
\* only on values that are ratios of small integers here)
\* ------------------------------------------------------------------------
Abs(x) == IF x < 0 THEN 0 - x ELSE x

\* a ratio n/d as the pair <<n, d>>
Rat == Int \X Int

GCD[a \in Nat, b \in Nat] == IF b = 0 THEN a ELSE GCD[b, a % b]

RNorm[n \in Int, d \in Int] ==
  LET s == IF d < 0 THEN 0 - 1 ELSE 1
      g == GCD[Abs(n), Abs(d)]
  IN  IF n = 0 THEN <<0, 1>> ELSE <<(s * n) \div g, (s * d) \div g>>

RInt(n) == <<n, 1>>
RAdd[a \in Rat, b \in Rat] == RNorm[a[1] * b[2] + b[1] * a[2], a[2] * b[2]]
RMul[a \in Rat, b \in Rat] == RNorm[a[1] * b[1], a[2] * b[2]]
RLeq[a \in Rat, b \in Rat] == a[1] * b[2] <= b[1] * a[2]
RLess[a \in Rat, b \in Rat] == a[1] * b[2] < b[1] * a[2]
RMin[a \in Rat, b \in Rat] == IF RLeq[a, b] THEN a ELSE b
RMax[a \in Rat, b \in Rat] == IF RLeq[a, b] THEN b ELSE a
RIsZero(a) == a[1] = 0
\* Math.round: nearest integer, halves towards +infinity
RRound(a) == (2 * a[1] + a[2]) \div (2 * a[2])

\* ------------------------------------------------------------------------
\* Quota ledger (localStorage item 'youtube_quota_usage')
\* ------------------------------------------------------------------------
QuotaOps == {"channels.list", "playlistItems.list"}

QUOTA_COSTS(operation) ==
  CASE operation = "videos.list" -> 1
    [] operation = "channels.list" -> 1
    [] operation = "playlistItems.list" -> 1
    [] operation = "commentThreads.list" -> 1
    [] operation = "search.list" -> 100
    [] operation = "videos.update" -> 50
    [] operation = "playlists.insert" -> 50
    [] OTHER -> 1

getTodayString(t) == t \div HoursPerDay

FreshUsage(t) ==
  [date |-> getTodayString(t), used |-> 0, limit |-> QuotaLimit, operations |-> <<>>]

\* seeded fault: the stored record is used whatever its date
getQuotaUsageAnyDate(stored, t) ==
  IF stored = None THEN FreshUsage(t) ELSE stored[1]

getQuotaUsage(stored, t) ==
  IF stored = None THEN FreshUsage(t)
  ELSE IF stored[1].date # getTodayString(t) THEN FreshUsage(t)
  ELSE stored[1]

LastN(s, n) == IF Len(s) > n THEN SubSeq(s, Len(s) - n + 1, Len(s)) ELSE s

\* seeded fault: the debit is clamped at the limit
trackQuotaUsageClamped(stored, t, operation) ==
  LET usage == getQuotaUsage(stored, t)
      cost == QUOTA_COSTS(operation)
      ops == Append(usage.operations,
                    [timestamp |-> t, operation |-> operation, cost |-> cost])
  IN  Some([usage EXCEPT !.used = IF usage.used + cost > usage.limit
                                    THEN usage.limit ELSE usage.used + cost,
                         !.operations = LastN(ops, OperationsCap)])

trackQuotaUsage(stored, t, operation) ==
  LET usage == getQuotaUsage(stored, t)
      cost == QUOTA_COSTS(operation)
      ops == Append(usage.operations,
                    [timestamp |-> t, operation |-> operation, cost |-> cost])
  IN  Some([usage EXCEPT !.used = usage.used + cost,
                         !.operations = LastN(ops, OperationsCap)])

resetQuota(t) == Some(FreshUsage(t))

canUseQuota(stored, t, operation) ==
  LET usage == getQuotaUsage(stored, t)
  IN  usage.used + QUOTA_COSTS(operation) <= usage.limit

getRemainingQuota(stored, t) ==
  LET usage == getQuotaUsage(stored, t)
  IN  IF usage.limit - usage.used > 0 THEN usage.limit - usage.used ELSE 0

estimateChannelScanCost(numChannels) == numChannels * 2

canScanChannels(stored, t, numChannels) ==
  getRemainingQuota(stored, t) >= estimateChannelScanCost(numChannels)

\* ------------------------------------------------------------------------
\* Outlier scorer
\* ------------------------------------------------------------------------
\* fetchChannelVideos hands on publishedAt.toLocaleDateString(), which the
\* scorer parses back with new Date(...): the time of day is lost.
toLocaleDateString(publishedAt) == publishedAt \div HoursPerDay
ParseDate(dateString) == dateString * HoursPerDay

calculateEngagementRatio(likes, comments, views) ==
  IF views = 0 THEN RInt(0) ELSE RNorm[likes + comments, views]

calculateMultiplier(videoViews, channelAvgViews) ==
  IF channelAvgViews = 0 THEN RInt(1) ELSE RNorm[videoViews, channelAvgViews]

calculateVelocityScore(views, publishedAt, channelAvgViews, t) ==
  LET hoursSincePublish == t - publishedAt
  IN  IF hoursSincePublish = 0 THEN RInt(0)
      ELSE IF channelAvgViews = 0 THEN RInt(0)
      ELSE RMin[RInt(10),
                RNorm[views * HoursPerWeek, hoursSincePublish * channelAvgViews]]

calculateRecencyBonus(publishedAt, t) ==
  LET hoursSincePublish == t - publishedAt
  IN  IF hoursSincePublish <= 24 THEN RInt(1)
      ELSE IF hoursSincePublish <= 48 THEN RNorm[1, 2]
      ELSE RInt(0)

\* seeded fault: the score is capped at 10 but not raised to 1
detectOutlierNoFloor(metrics, t) ==
  LET multiplier == calculateMultiplier(metrics.views, metrics.channelAvgViews)
      engagementRatio ==
        calculateEngagementRatio(metrics.likes, metrics.comments, metrics.views)
      velocityScore ==
        calculateVelocityScore(metrics.views, metrics.publishedAt,
                               metrics.channelAvgViews, t)
      recencyBonus == calculateRecencyBonus(metrics.publishedAt, t)
      multiplierScore ==
        RMin[RInt(10), RMul[RAdd[multiplier, RInt(0 - 1)], RInt(2)]]
      engagementScore == RMin[RInt(10), RMul[engagementRatio, RInt(20)]]
      score ==
        RAdd[RAdd[RMul[multiplierScore, RNorm[4, 10]],
                  RMul[velocityScore, RNorm[3, 10]]],
             RAdd[RMul[engagementScore, RNorm[2, 10]],
                  RMul[RMul[recencyBonus, RInt(10)], RNorm[1, 10]]]]
      rounded == RRound(score)
      finalScore ==
        IF rounded > 10 THEN 10 ELSE rounded
  IN  [videoId |-> metrics.videoId,
       outlierScore |-> finalScore,
       multiplier |-> multiplier,
       velocityScore |-> velocityScore,
       engagementRatio |-> engagementRatio,
       isOutlier |-> (finalScore >= 6 \/ RLeq[RInt(3), multiplier])]

detectOutlier(metrics, t) ==
  LET multiplier == calculateMultiplier(metrics.views, metrics.channelAvgViews)
      engagementRatio ==
        calculateEngagementRatio(metrics.likes, metrics.comments, metrics.views)
      velocityScore ==
        calculateVelocityScore(metrics.views, metrics.publishedAt,
                               metrics.channelAvgViews, t)
      recencyBonus == calculateRecencyBonus(metrics.publishedAt, t)
      multiplierScore ==
        RMin[RInt(10), RMul[RAdd[multiplier, RInt(0 - 1)], RInt(2)]]
      engagementScore == RMin[RInt(10), RMul[engagementRatio, RInt(20)]]
      score ==
        RAdd[RAdd[RMul[multiplierScore, RNorm[4, 10]],
                  RMul[velocityScore, RNorm[3, 10]]],
             RAdd[RMul[engagementScore, RNorm[2, 10]],
                  RMul[RMul[recencyBonus, RInt(10)], RNorm[1, 10]]]]
      rounded == RRound(score)
      finalScore ==
        IF rounded > 10 THEN 10 ELSE IF rounded < 1 THEN 1 ELSE rounded
  IN  [videoId |-> metrics.videoId,
       outlierScore |-> finalScore,
       multiplier |-> multiplier,
       velocityScore |-> velocityScore,
       engagementRatio |-> engagementRatio,
       isOutlier |-> (finalScore >= 6 \/ RLeq[RInt(3), multiplier])]

\* ------------------------------------------------------------------------
\* Velocity between two snapshots
\* ------------------------------------------------------------------------
\* seeded fault: the views of the newer snapshot are taken from the older
calculateVelocityBetweenSnapshotsSwapped(newer, older) ==
  LET viewsDelta == older.views - newer.views
      hoursDelta == newer.snapshot_at - older.snapshot_at
  IN  IF hoursDelta = 0 THEN RInt(0) ELSE RNorm[viewsDelta, hoursDelta]

calculateVelocityBetweenSnapshots(newer, older) ==
  LET viewsDelta == newer.views - older.views
      hoursDelta == newer.snapshot_at - older.snapshot_at
  IN  IF hoursDelta = 0 THEN RInt(0) ELSE RNorm[viewsDelta, hoursDelta]

\* [...snapshots].sort((a, b) => b.snapshot_at - a.snapshot_at): newest
\* first, snapshots of the same time in their given order
RECURSIVE SortNewestFirst(_)
SortNewestFirst(snapshots) ==
  IF snapshots = <<>> THEN <<>>
  ELSE LET newest ==
             CHOOSE i \in 1..Len(snapshots) :
               /\ \A j \in 1..Len(snapshots) :
                    snapshots[j].snapshot_at <= snapshots[i].snapshot_at
               /\ \A j \in 1..(i - 1) :
                    snapshots[j].snapshot_at < snapshots[i].snapshot_at
       IN  <<snapshots[newest]>>
             \o SortNewestFirst(SubSeq(snapshots, 1, newest - 1)
                                  \o SubSeq(snapshots, newest + 1, Len(snapshots)))

RECURSIVE RSum(_)
RSum(values) ==
  IF values = <<>> THEN RInt(0) ELSE RAdd[Head(values), RSum(Tail(values))]

RECURSIVE RMaxOf(_)
RMaxOf(values) ==
  IF Len(values) = 1 THEN values[1] ELSE RMax[Head(values), RMaxOf(Tail(values))]

\* None for null, Some(VelocityData) otherwise
calculateVelocityData(snapshots) ==
  IF Len(snapshots) < 2 THEN None
  ELSE
    LET sorted == SortNewestFirst(snapshots)
        velocities ==
          [i \in 1..(Len(sorted) - 1) |->
             calculateVelocityBetweenSnapshots(sorted[i], sorted[i + 1])]
        currentVelocity == velocities[1]
        avgVelocity == RMul[RSum(velocities), RNorm[1, Len(velocities)]]
        peakVelocity == RMaxOf(velocities)
        acceleration ==
          IF Len(velocities) > 1
            THEN RAdd[velocities[1], RMul[RInt(0 - 1), velocities[2]]]
            ELSE RInt(0)
        trend ==
          IF RLess[<<Abs(acceleration[1]), acceleration[2]>>,
                   RMul[avgVelocity, RNorm[1, 10]]]
            THEN "stable"
          ELSE IF RLess[RInt(0), acceleration] THEN "accelerating"
          ELSE "decelerating"
    IN  Some([videoId |-> sorted[1].video_id,
              currentVelocity |-> currentVelocity,
              acceleration |-> acceleration,
              trend |-> trend,
              peakVelocity |-> peakVelocity,
              avgVelocity |-> avgVelocity])

\* ------------------------------------------------------------------------
\* Tracked channels: the due queue
\* ------------------------------------------------------------------------
SecondsPerHour == 3600

RECURSIVE SeqFilterActive(_)
SeqFilterActive(s) ==
  IF s = <<>> THEN <<>>
  ELSE IF Head(s).is_active THEN <<Head(s)>> \o SeqFilterActive(Tail(s))
  ELSE SeqFilterActive(Tail(s))

\* order('scrape_priority', descending) of the rows: the store returns rows
\* of equal priority in row order
RECURSIVE RowsByPriority(_, _)
RowsByPriority(rows, prio) ==
  IF prio < 1 THEN <<>>
  ELSE SelectSeq(rows, LAMBDA r : r.scrape_priority = prio)
         \o RowsByPriority(rows, prio - 1)

getTrackedChannels(rows, activeOnly) ==
  LET sorted == RowsByPriority(rows, 10)
  IN  IF activeOnly THEN SeqFilterActive(sorted) ELSE sorted

\* seeded fault: a channel without a last_scraped_at is not due
IsDueScrapedOnly(channel, t) ==
  IF channel.last_scraped_at = NoTime THEN FALSE
  ELSE (t - channel.last_scraped_at) * SecondsPerHour >= channel.scrape_frequency

IsDue(channel, t) ==
  IF channel.last_scraped_at = NoTime THEN TRUE
  ELSE (t - channel.last_scraped_at) * SecondsPerHour >= channel.scrape_frequency

\* seeded fault: never-scraped channels sort last within a priority tier
DueCompareNullLast(a, b) ==
  IF a.scrape_priority # b.scrape_priority
    THEN b.scrape_priority - a.scrape_priority
  ELSE IF a.last_scraped_at = NoTime THEN 1
  ELSE IF b.last_scraped_at = NoTime THEN 0 - 1
  ELSE a.last_scraped_at - b.last_scraped_at

\* the comparator handed to Array.prototype.sort
DueCompare(a, b) ==
  IF a.scrape_priority # b.scrape_priority
    THEN b.scrape_priority - a.scrape_priority
  ELSE IF a.last_scraped_at = NoTime THEN 0 - 1
  ELSE IF b.last_scraped_at = NoTime THEN 1
  ELSE a.last_scraped_at - b.last_scraped_at

\* Array.prototype.sort on short arrays: binary insertion of each element
\* into the sorted prefix
RECURSIVE BinaryInsertPos(_, _, _, _)
BinaryInsertPos(pivot, sorted, left, right) ==
  IF left >= right THEN left
  ELSE LET mid == left + ((right - left) \div 2)
       IN  IF DueCompare(pivot, sorted[mid + 1]) < 0
             THEN BinaryInsertPos(pivot, sorted, left, mid)
             ELSE BinaryInsertPos(pivot, sorted, mid + 1, right)

RECURSIVE SortDue(_, _)
SortDue(sorted, rest) ==
  IF rest = <<>> THEN sorted
  ELSE LET pivot == Head(rest)
           pos == BinaryInsertPos(pivot, sorted, 0, Len(sorted))
       IN  SortDue(SubSeq(sorted, 1, pos) \o <<pivot>>
                     \o SubSeq(sorted, pos + 1, Len(sorted)),
                   Tail(rest))

Slice(s, n) == IF Len(s) > n THEN SubSeq(s, 1, n) ELSE s

getChannelsDueForScraping(rows, t, limit) ==
  LET channels == getTrackedChannels(rows, TRUE)
      dueChannels == SelectSeq(channels, LAMBDA c : IsDue(c, t))
  IN  Slice(SortDue(<<>>, dueChannels), limit)

\* ------------------------------------------------------------------------
\* Rotation scheduler: persisted state and pure helpers
\* ------------------------------------------------------------------------
DefaultSchedulerState ==
  [isRunning |-> FALSE, lastRunAt |-> NoTime, nextRunAt |-> NoTime,
   channelsScraped |-> 0, outliersFound |-> 0, quotaUsed |-> 0,
   errors |-> <<>>]

getSchedulerState(stored) ==
  IF stored = None THEN DefaultSchedulerState ELSE stored[1]

calculateNextRunTime(t, intervalHours) == t + intervalHours

\* seeded fault: the tick does not look at nextRunAt
shouldRunSchedulerAlways(state, t) == TRUE

shouldRunScheduler(state, t) ==
  IF state.nextRunAt = NoTime THEN TRUE ELSE t >= state.nextRunAt

RECURSIVE SumField(_, _)
SumField(results, f) ==
  IF results = <<>> THEN 0 ELSE Head(results)[f] + SumField(Tail(results), f)

getScrapeResultsSummary(results) ==
  [totalChannels |-> Len(results),
   totalVideos |-> SumField(results, "videosScraped"),
   totalOutliers |-> SumField(results, "outliersDetected"),
   totalSnapshots |-> SumField(results, "snapshotsStored"),
   totalQuotaUsed |-> SumField(results, "quotaUsed")]

RECURSIVE ResultErrors(_)
ResultErrors(results) ==
  IF results = <<>> THEN <<>>
  ELSE IF Len(Head(results).errors) > 0
    THEN <<<<Head(results).channelName, Head(results).errors>>>>
           \o ResultErrors(Tail(results))
  ELSE ResultErrors(Tail(results))


\* ------------------------------------------------------------------------
\* Inputs the environment can hand to the program
\* ------------------------------------------------------------------------
ViewsChoices == {100, 600, 700}
StatusChoices == {"dismissed"}
StatsChoices == {[viewCount |-> 1000, videoCount |-> 10, subscriberCount |-> 50]}
StoreAllSnapshots == FALSE

\* uploads of each channel, newest first, and their publish times
VideosOf(c) ==
  IF c = "c1" THEN <<"v1", "v2", "v3", "v5", "v6", "v7", "v8", "v9">> ELSE <<"v4">>
PublishedAt(v) ==
  CASE v = "v1" -> 0 - 19 [] v = "v2" -> 0 - 200 [] v = "v3" -> 0 - 300 [] OTHER -> 0

MinOf(a, b) == IF a < b THEN a ELSE b

\* what fetchChannelVideos can resolve to for a channel
VideoListChoices(c, lengths, views) ==
  UNION {{[i \in 1..n |->
             [id |-> VideosOf(c)[i], views |-> f[i],
              publishDate |-> toLocaleDateString(PublishedAt(VideosOf(c)[i]))]]
            : f \in [1..n -> views]}
         : n \in {k \in lengths : k <= Len(VideosOf(c))}}

ChannelRow(c, active, prio, avg) ==
  [channel_id |-> c, channel_name |-> c, is_active |-> active,
   scrape_priority |-> prio, last_scraped_at |-> NoTime,
   scrape_frequency |-> 21600, avg_views |-> avg, subscriber_count |-> 0,
   total_videos |-> 0]

\* ------------------------------------------------------------------------
\* State
\* ------------------------------------------------------------------------
VARIABLES
  now,              \* wall clock, hours
  schedulerStore,   \* localStorage item 'scheduler_state' (None when absent)
  quotaStore,       \* localStorage item 'youtube_quota_usage'
  tracked_channels, \* table tracked_channels, in row order
  video_snapshots,  \* table video_snapshots, in insertion order
  outliers,         \* table outliers, keyed by its unique video_id
  proc,             \* the async call chains and their local variables
  budget            \* operations still to be started, failures still to occur

vars == <<now, schedulerStore, quotaStore, tracked_channels, video_snapshots,
          outliers, proc, budget>>

NoResult ==
  [channelId |-> "", channelName |-> "", videosScraped |-> 0,
   outliersDetected |-> 0, snapshotsStored |-> 0, quotaUsed |-> 0,
   errors |-> <<>>]

NoStats == [viewCount |-> 0, videoCount |-> 0, subscriberCount |-> 0]

\* kind: which entry point the chain came through; batchSize: cfg.batchSize
\* of the session; pc: the await it is
\* suspended at; io: the outcomes of the awaits of the current scrapeChannel
\* call, as <<call, outcome>> or <<call, outcome, detail>>; ret: how the last
\* call of the chain ended, as <<"manual", "returned", result, io>>,
\* <<"force", "returned", results>>, <<"force", "raised", message>>,
\* <<"start", "skipped">> or <<"start", "completed", time>>
IdleProc ==
  [kind |-> "none", pc |-> "idle", state |-> DefaultSchedulerState,
   channels |-> <<>>, ci |-> 0, results |-> <<>>, result |-> NoResult,
   quotaBefore |-> 0, stats |-> NoStats, avgViews |-> 0, videos |-> <<>>,
   vi |-> 0, snapshots |-> <<>>, outliers |-> <<>>, oi |-> 0,
   existing |-> FALSE, t0 |-> 0, io |-> <<>>, ret |-> <<"none">>,
   batchSize |-> BatchSize]

InitWith(maxCalls, maxFaults, usedChoices, rows) ==
  /\ now = 0
  /\ schedulerStore = None
  /\ \E u \in usedChoices :
       quotaStore = Some([FreshUsage(0) EXCEPT !.used = u])
  /\ tracked_channels = rows
  /\ video_snapshots = <<>>
  /\ outliers = [v \in VideoIds |-> None]
  /\ proc = [p \in Procs |-> IdleProc]
  /\ budget = [calls |-> maxCalls, faults |-> maxFaults]

Out(pr, sched) == [pr |-> pr, sched |-> sched]

Channel(pr) == pr.channels[pr.ci]

Logged(pr, call, outcome) == [pr EXCEPT !.io = Append(@, <<call, outcome>>)]

LoggedWith(pr, call, outcome, detail) ==
  [pr EXCEPT !.io = Append(@, <<call, outcome, detail>>)]

PushError(pr, entry) == [pr EXCEPT !.result.errors = Append(@, entry)]

\* ------------------------------------------------------------------------
\* Rotation scheduler: how a session ends
\* ------------------------------------------------------------------------
SessionStateOnSuccess(state, results, t, intervalHours) ==
  LET summary == getScrapeResultsSummary(results)
  IN  [state EXCEPT !.isRunning = FALSE,
                    !.lastRunAt = t,
                    !.nextRunAt = calculateNextRunTime(t, intervalHours),
                    !.channelsScraped = summary.totalChannels,
                    !.outliersFound = summary.totalOutliers,
                    !.quotaUsed = summary.totalQuotaUsed,
                    !.errors = ResultErrors(results)]

startSchedulerCatch(state, message, t) ==
  [state EXCEPT !.isRunning = FALSE,
                !.errors = <<message>>,
                !.nextRunAt = calculateNextRunTime(t, IntervalHours)]

forceRunSchedulerCatch(state, message, t) ==
  [state EXCEPT !.isRunning = FALSE,
                !.errors = <<message>>]

\* runScrapingSession returned results
SessionFinish(pr, results, t) ==
  LET state == SessionStateOnSuccess(pr.state, results, t, IntervalHours)
  IN  Out([IdleProc EXCEPT !.ret = IF pr.kind = "force"
                                      THEN <<"force", "returned", results>>
                                      ELSE <<"start", "completed", t>>],
          Some(state))

\* runScrapingSession threw
SessionCatch(pr, message, t) ==
  LET state == IF pr.kind = "force"
                 THEN forceRunSchedulerCatch(pr.state, message, t)
                 ELSE startSchedulerCatch(pr.state, message, t)
  IN  Out([IdleProc EXCEPT !.ret = IF pr.kind = "force"
                                      THEN <<"force", "raised", message>>
                                      ELSE <<"start", "completed", t>>],
          Some(state))

\* ------------------------------------------------------------------------
\* Scraper orchestrator: control flow between the awaits
\* ------------------------------------------------------------------------
EmptyResult(channel) ==
  [NoResult EXCEPT !.channelId = channel.channel_id,
                   !.channelName = channel.channel_name]

\* scrapeChannel hands result to its caller: handleScrapeChannel for a
\* manual scrape, the loop of scrapeChannels (which then awaits the
\* inter-channel delay) for a session
ReturnResult(pr, result, sched) ==
  IF pr.kind = "manual"
    THEN Out([IdleProc EXCEPT !.ret = <<"manual", "returned", result, pr.io>>],
             sched)
    ELSE Out([pr EXCEPT !.pc = "delay", !.result = result,
                        !.results = Append(@, result)], sched)

\* tail of scrapeChannel: compute quotaUsed and return
ScrapeEnd(pr, q, t, sched) ==
  LET quotaAfter == getRemainingQuota(q, t)
      result == [pr.result EXCEPT !.quotaUsed = pr.quotaBefore - quotaAfter]
  IN  ReturnResult(pr, result, sched)

\* seeded fault: the outer catch swallows the error
ScrapeCatchSilent(pr, message, q, t, sched) == ScrapeEnd(pr, q, t, sched)

\* outer catch of scrapeChannel
ScrapeCatch(pr, message, q, t, sched) ==
  ScrapeEnd(PushError(pr, <<"Scrape failed", message>>), q, t, sched)

\* head of scrapeChannel, up to its first await
BeginScrape(pr, q, t, sched) ==
  LET pr1 == [pr EXCEPT !.result = EmptyResult(Channel(pr)),
                        !.quotaBefore = getRemainingQuota(q, t),
                        !.stats = NoStats, !.avgViews = 0, !.videos = <<>>,
                        !.vi = 0, !.snapshots = <<>>, !.outliers = <<>>,
                        !.oi = 0, !.existing = FALSE, !.io = <<>>]
  IN  IF ~canUseQuota(q, t, "channels.list")
        THEN ScrapeCatch(pr1, "Insufficient quota for channels.list", q, t, sched)
        ELSE Out([pr1 EXCEPT !.pc = "fetchChannelStats", !.t0 = t], sched)

\* seeded fault: the loop of scrapeChannels gives up after a channel whose
\* result carries errors
NextChannelStopOnError(pr, q, t, sched) ==
  IF pr.ci >= Len(pr.channels) THEN SessionFinish(pr, pr.results, t)
  ELSE IF \/ getRemainingQuota(q, t) < QuotaFloor
          \/ (pr.results # <<>> /\ pr.results[Len(pr.results)].errors # <<>>)
    THEN SessionFinish(pr, pr.results, t)
  ELSE BeginScrape([pr EXCEPT !.ci = @ + 1], q, t, sched)

\* head of the loop of scrapeChannels
NextChannel(pr, q, t, sched) ==
  IF pr.ci >= Len(pr.channels) THEN SessionFinish(pr, pr.results, t)
  ELSE IF getRemainingQuota(q, t) < QuotaFloor
    THEN SessionFinish(pr, pr.results, t)
  ELSE BeginScrape([pr EXCEPT !.ci = @ + 1], q, t, sched)

\* seeded fault: the loop over the outliers is skipped
AfterBulkNoUpserts(pr, t) == [pr EXCEPT !.pc = "updateChannelStats", !.t0 = t]

\* after the loop over the videos
AfterBulk(pr, t) ==
  IF Len(pr.outliers) > 0
    THEN [pr EXCEPT !.pc = "getOutlier", !.oi = 1, !.t0 = t]
    ELSE [pr EXCEPT !.pc = "updateChannelStats", !.t0 = t]

\* seeded fault: the collected snapshots are never inserted
AfterVideosNoInsert(pr, t) == AfterBulk(pr, t)

\* lines 184-192: the bulk insert runs when a snapshot was collected
AfterVideos(pr, t) ==
  IF Len(pr.snapshots) > 0
    THEN [pr EXCEPT !.pc = "addSnapshotsBulk", !.t0 = t]
    ELSE AfterBulk(pr, t)


\* ------------------------------------------------------------------------
\* Scraper orchestrator: the body of the per-video loop
\* ------------------------------------------------------------------------
\* getLatestSnapshot: the rows of the video with the greatest snapshot_at
LatestSnapshots(rows, videoId) ==
  {i \in 1..Len(rows) :
     /\ rows[i].video_id = videoId
     /\ \A j \in 1..Len(rows) :
          rows[j].video_id = videoId => rows[j].snapshot_at <= rows[i].snapshot_at}

\* the VideoMetrics handed to detectOutlier; the Video type carries no likes
\* or comments: video.likes || 0
VideoMetrics(pr, video) ==
  [videoId |-> video.id, channelId |-> Channel(pr).channel_id,
   views |-> video.views, likes |-> 0, comments |-> 0,
   publishedAt |-> ParseDate(video.publishDate),
   channelAvgViews |-> pr.avgViews]

\* lines 102-178: previousSnapshot is None or Some(row)
ProcessVideo(pr, video, previousSnapshot, t) ==
  LET channel == Channel(pr)
      likes == 0
      comments == 0
      currentSnapshot ==
        [video_id |-> video.id, channel_id |-> channel.channel_id,
         views |-> video.views, likes |-> likes, comments |-> comments,
         snapshot_at |-> t]
      velocityScore ==
        IF previousSnapshot # None
          THEN calculateVelocityBetweenSnapshots(currentSnapshot, previousSnapshot[1])
          ELSE RInt(0)
      metrics == VideoMetrics(pr, video)
      outlierResult == detectOutlier(metrics, t)
      velocity_score ==
        IF ~RIsZero(velocityScore) THEN velocityScore ELSE outlierResult.velocityScore
      snapshot ==
        [video_id |-> video.id, channel_id |-> channel.channel_id,
         views |-> video.views, likes |-> likes, comments |-> comments,
         published_at |-> ParseDate(video.publishDate),
         engagement_ratio |-> outlierResult.engagementRatio,
         velocity_score |-> velocity_score,
         multiplier |-> outlierResult.multiplier,
         outlier_score |-> outlierResult.outlierScore,
         snapshot_at |-> t]
      outlier ==
        [video_id |-> video.id, channel_id |-> channel.channel_id,
         channel_name |-> channel.channel_name,
         views |-> video.views, likes |-> likes, comments |-> comments,
         multiplier |-> outlierResult.multiplier,
         outlier_score |-> outlierResult.outlierScore,
         velocity_score |-> velocity_score,
         engagement_ratio |-> outlierResult.engagementRatio,
         detected_at |-> t, last_updated_at |-> t,
         first_seen_views |-> video.views,
         status |-> "active", is_new |-> TRUE,
         priority |-> DefaultOutlierPriority]
      pr1 == IF outlierResult.isOutlier \/ StoreAllSnapshots
               THEN [pr EXCEPT !.snapshots = Append(@, snapshot)]
               ELSE pr
  IN  IF outlierResult.outlierScore >= MinOutlierScore
        THEN [pr1 EXCEPT !.outliers = Append(@, outlier),
                         !.result.outliersDetected = @ + 1]
        ELSE pr1

\* seeded fault: the catch sits around the whole loop over the videos, so
\* the first failing video ends the loop
VideoCatchAbort(pr, video, message) ==
  PushError([pr EXCEPT !.vi = Len(pr.videos)], <<"Video", video.id, message>>)

\* the per-video catch
VideoCatch(pr, video, message) == PushError(pr, <<"Video", video.id, message>>)

\* next iteration of the loop over the videos, or what follows the loop
NextVideo(pr, t) ==
  IF pr.vi < Len(pr.videos)
    THEN [pr EXCEPT !.vi = @ + 1, !.t0 = t]
    ELSE AfterVideos(pr, t)

\* next iteration of the loop over the outliers, or what follows the loop
NextOutlier(pr, t) ==
  IF pr.oi < Len(pr.outliers)
    THEN [pr EXCEPT !.pc = "getOutlier", !.oi = @ + 1, !.t0 = t]
    ELSE [pr EXCEPT !.pc = "updateChannelStats", !.t0 = t]

\* the row written by supabase.from('outliers').update({...outlier, last_updated_at})
UpdatedOutlierRow(row, outlier, t) ==
  [f \in DOMAIN row |->
     IF f = "last_updated_at" THEN t
     ELSE IF f \in DOMAIN outlier THEN outlier[f]
     ELSE row[f]]

\* avgViews = channel.avg_views || viewCount / videoCount || 10000
\* (the statistics drawn here divide exactly)
AvgViewsOf(channel, stats) ==
  IF channel.avg_views # 0 THEN channel.avg_views
  ELSE IF stats.viewCount \div stats.videoCount # 0
    THEN stats.viewCount \div stats.videoCount
  ELSE DefaultAvgViews

\* supabase.from('tracked_channels').update(fields).eq('channel_id', channelId)
UpdateRow(rows, channelId, fields) ==
  [i \in 1..Len(rows) |->
     IF rows[i].channel_id = channelId
       THEN [f \in DOMAIN rows[i] |->
               IF f \in DOMAIN fields THEN fields[f] ELSE rows[i][f]]
       ELSE rows[i]]


\* ------------------------------------------------------------------------
\* Actions: entry points
\* ------------------------------------------------------------------------
SetProc(p, out) ==
  /\ proc' = [proc EXCEPT ![p] = out.pr]
  /\ schedulerStore' = out.sched

\* a new call chain takes the first free slot
StartCall(p) ==
  /\ proc[p].pc = "idle"
  /\ \A q \in Procs : q < p => proc[q].pc # "idle"
  /\ budget.calls > 0
  /\ budget' = [budget EXCEPT !.calls = @ - 1]
Fault == budget.faults > 0 /\ budget' = [budget EXCEPT !.faults = @ - 1]

\* startScheduler / forceRunScheduler from the point where the session is
\* known to run, up to the first await of runScrapingSession
EnterSessionWith(kind, state, q, t, batchSize) ==
  LET running == [state EXCEPT !.isRunning = TRUE]
      pr == [IdleProc EXCEPT !.kind = kind, !.state = running,
                             !.batchSize = batchSize]
  IN  IF ~canScanChannels(q, t, batchSize)
        THEN SessionCatch(pr, "Insufficient quota", t)
        ELSE Out([pr EXCEPT !.pc = "getChannelsDue", !.t0 = t], Some(running))

\* with the default batch size
EnterSession(kind, state, q, t) == EnterSessionWith(kind, state, q, t, BatchSize)

\* a tick of the 5-minute timer of useScheduler (or the call on mount)
StartScheduler(p) ==
  /\ StartCall(p)
  /\ LET state == getSchedulerState(schedulerStore)
     IN  IF ~shouldRunScheduler(state, now)
           THEN /\ proc' = [proc EXCEPT ![p] =
                              [IdleProc EXCEPT !.ret = <<"start", "skipped">>]]
                /\ UNCHANGED schedulerStore
           ELSE SetProc(p, EnterSession("start", state, quotaStore, now))
  /\ UNCHANGED <<now, quotaStore, tracked_channels, video_snapshots, outliers>>

\* a tick of a scheduler configured with { batchSize }, at a time when a
\* session is due
StartSchedulerWith(p, batchSize) ==
  /\ StartCall(p)
  /\ shouldRunScheduler(getSchedulerState(schedulerStore), now)
  /\ SetProc(p, EnterSessionWith("start", getSchedulerState(schedulerStore),
                                 quotaStore, now, batchSize))
  /\ UNCHANGED <<now, quotaStore, tracked_channels, video_snapshots, outliers>>

ForceRunScheduler(p) ==
  /\ StartCall(p)
  /\ SetProc(p, EnterSession("force", getSchedulerState(schedulerStore),
                             quotaStore, now))
  /\ UNCHANGED <<now, quotaStore, tracked_channels, video_snapshots, outliers>>

\* the scrape button of the Competitors page
HandleScrapeChannel(p) ==
  /\ StartCall(p)
  /\ \E i \in 1..Len(tracked_channels) :
       SetProc(p, BeginScrape([IdleProc EXCEPT !.kind = "manual",
                                               !.channels = <<tracked_channels[i]>>,
                                               !.ci = 1],
                              quotaStore, now, schedulerStore))
  /\ UNCHANGED <<now, quotaStore, tracked_channels, video_snapshots, outliers>>

\* ------------------------------------------------------------------------
\* Actions: an awaited call settles
\* ------------------------------------------------------------------------
GetChannelsDueReturn(p) ==
  /\ proc[p].pc = "getChannelsDue"
  /\ LET pr == proc[p]
         channels == getChannelsDueForScraping(tracked_channels, pr.t0, pr.batchSize)
     IN  SetProc(p,
           IF Len(channels) = 0 THEN SessionFinish(pr, <<>>, now)
           ELSE NextChannel([pr EXCEPT !.channels = channels, !.ci = 0,
                                       !.results = <<>>],
                            quotaStore, now, schedulerStore))
  /\ UNCHANGED <<now, quotaStore, tracked_channels, video_snapshots, outliers, budget>>

\* getTrackedChannels throws on a store error
GetChannelsDueThrow(p) ==
  /\ proc[p].pc = "getChannelsDue"
  /\ Fault
  /\ SetProc(p, SessionCatch(proc[p], "store error", now))
  /\ UNCHANGED <<now, quotaStore, tracked_channels, video_snapshots, outliers>>

\* lines 70-84 of scrapeChannel; stats is None when fetchChannelStats
\* resolved to null
AfterStats(pr, stats, q, t, sched) ==
  IF stats = None
    THEN ScrapeCatch(pr, "Failed to fetch channel stats", q, t, sched)
  ELSE LET pr1 == [pr EXCEPT !.stats = stats[1],
                             !.avgViews = AvgViewsOf(Channel(pr), stats[1])]
       IN  IF ~canUseQuota(q, t, "playlistItems.list")
             THEN ScrapeCatch(pr1, "Insufficient quota for playlistItems.list",
                              q, t, sched)
             ELSE Out([pr1 EXCEPT !.pc = "fetchChannelVideos", !.t0 = t], sched)

FetchChannelStatsReturn(p) ==
  /\ proc[p].pc = "fetchChannelStats"
  /\ \E stats \in StatsChoices :
       LET q == trackQuotaUsage(quotaStore, now, "channels.list")
       IN  /\ quotaStore' = q
           /\ SetProc(p, AfterStats(Logged(proc[p], "fetchChannelStats", "ok"),
                                    Some(stats), q, now, schedulerStore))
  /\ UNCHANGED <<now, tracked_channels, video_snapshots, outliers, budget>>

\* the request failed or the channel is unknown: fetchChannelStats returns null
FetchChannelStatsNull(p) ==
  /\ proc[p].pc = "fetchChannelStats"
  /\ Fault
  /\ LET q == trackQuotaUsage(quotaStore, now, "channels.list")
     IN  /\ quotaStore' = q
         /\ SetProc(p, AfterStats(Logged(proc[p], "fetchChannelStats", "null"),
                                  None, q, now, schedulerStore))
  /\ UNCHANGED <<now, tracked_channels, video_snapshots, outliers>>

FetchChannelVideosThrow(p) ==
  /\ proc[p].pc = "fetchChannelVideos"
  /\ Fault
  /\ SetProc(p, ScrapeCatch(Logged(proc[p], "fetchChannelVideos", "throw"),
                            "Failed to fetch videos", quotaStore, now,
                            schedulerStore))
  /\ UNCHANGED <<now, quotaStore, tracked_channels, video_snapshots, outliers>>

\* lines 85-97 of scrapeChannel
AfterVideosFetched(pr, videos, q, t, sched) ==
  LET pr1 == [pr EXCEPT !.result.videosScraped = Len(videos), !.videos = videos]
  IN  IF Len(videos) = 0
        THEN ScrapeCatch(pr1, "No videos found for channel", q, t, sched)
        ELSE Out([pr1 EXCEPT !.vi = 1, !.pc = "getLatestSnapshot", !.t0 = t], sched)

FetchChannelVideosReturn(p, lengths, views) ==
  /\ proc[p].pc = "fetchChannelVideos"
  /\ \E videos \in VideoListChoices(Channel(proc[p]).channel_id, lengths, views) :
       LET q == trackQuotaUsage(quotaStore, now, "playlistItems.list")
       IN  /\ quotaStore' = q
           /\ SetProc(p, AfterVideosFetched(
                           Logged(proc[p], "fetchChannelVideos", "ok"),
                           videos, q, now, schedulerStore))
  /\ UNCHANGED <<now, tracked_channels, video_snapshots, outliers, budget>>

\* getLatestSnapshot settles and the rest of the loop body runs
GetLatestSnapshotReturn(p) ==
  /\ proc[p].pc = "getLatestSnapshot"
  /\ LET pr == proc[p]
         video == pr.videos[pr.vi]
         latest == LatestSnapshots(video_snapshots, video.id)
     IN  \E previous \in
             IF latest = {} THEN {None}
             ELSE {Some(video_snapshots[i]) : i \in latest} :
           proc' = [proc EXCEPT ![p] =
             NextVideo(ProcessVideo(
                         LoggedWith(pr, "getLatestSnapshot", "ok",
                                    <<VideoMetrics(pr, video), now>>),
                         video, previous, now), now)]
  /\ UNCHANGED <<now, schedulerStore, quotaStore, tracked_channels,
                 video_snapshots, outliers, budget>>

\* the store reports an error: getLatestSnapshot logs it and returns null
GetLatestSnapshotError(p) ==
  /\ proc[p].pc = "getLatestSnapshot"
  /\ Fault
  /\ LET pr == proc[p]
         video == pr.videos[pr.vi]
     IN  proc' = [proc EXCEPT ![p] =
           NextVideo(ProcessVideo(
                       LoggedWith(pr, "getLatestSnapshot", "error",
                                  <<VideoMetrics(pr, video), now>>),
                       video, None, now), now)]
  /\ UNCHANGED <<now, schedulerStore, quotaStore, tracked_channels,
                 video_snapshots, outliers>>

\* something inside the loop body throws
VideoThrow(p) ==
  /\ proc[p].pc = "getLatestSnapshot"
  /\ Fault
  /\ LET pr == proc[p]
     IN  proc' = [proc EXCEPT ![p] =
           NextVideo(VideoCatch(LoggedWith(pr, "video", "throw", pr.videos[pr.vi].id),
                                pr.videos[pr.vi], "processing failed"), now)]
  /\ UNCHANGED <<now, schedulerStore, quotaStore, tracked_channels,
                 video_snapshots, outliers>>

AddSnapshotsBulkReturn(p) ==
  /\ proc[p].pc = "addSnapshotsBulk"
  /\ LET pr == proc[p]
     IN  /\ video_snapshots' = video_snapshots \o pr.snapshots
         /\ proc' = [proc EXCEPT ![p] =
              AfterBulk([Logged(pr, "addSnapshotsBulk", "ok")
                           EXCEPT !.result.snapshotsStored = Len(pr.snapshots)],
                        now)]
  /\ UNCHANGED <<now, schedulerStore, quotaStore, tracked_channels, outliers, budget>>

AddSnapshotsBulkThrow(p) ==
  /\ proc[p].pc = "addSnapshotsBulk"
  /\ Fault
  /\ proc' = [proc EXCEPT ![p] =
       AfterBulk(PushError(Logged(proc[p], "addSnapshotsBulk", "throw"),
                           <<"Snapshot insert failed", "store error">>), now)]
  /\ UNCHANGED <<now, schedulerStore, quotaStore, tracked_channels,
                 video_snapshots, outliers>>

\* upsertOutlier, first await: getOutlier
GetOutlierReturn(p) ==
  /\ proc[p].pc = "getOutlier"
  /\ LET pr == proc[p]
         outlier == pr.outliers[pr.oi]
     IN  proc' = [proc EXCEPT ![p] =
           [pr EXCEPT !.existing = (outliers[outlier.video_id] # None),
                      !.pc = "writeOutlier", !.t0 = now]]
  /\ UNCHANGED <<now, schedulerStore, quotaStore, tracked_channels,
                 video_snapshots, outliers, budget>>

\* the store reports an error: getOutlier logs it and returns null
GetOutlierError(p) ==
  /\ proc[p].pc = "getOutlier"
  /\ Fault
  /\ proc' = [proc EXCEPT ![p] =
       [proc[p] EXCEPT !.existing = FALSE, !.pc = "writeOutlier", !.t0 = now]]
  /\ UNCHANGED <<now, schedulerStore, quotaStore, tracked_channels,
                 video_snapshots, outliers>>

UpsertFailed(pr, outlier, t) ==
  NextOutlier(PushError(LoggedWith(pr, "upsertOutlier", "throw", outlier.video_id),
                        <<"Outlier upsert failed", outlier.video_id, "store error">>),
              t)

\* upsertOutlier, second await: the update or the insert
WriteOutlierReturn(p) ==
  /\ proc[p].pc = "writeOutlier"
  /\ LET pr == proc[p]
         outlier == pr.outliers[pr.oi]
         row == outliers[outlier.video_id]
     IN  IF pr.existing /\ row # None
           THEN /\ outliers' = [outliers EXCEPT ![outlier.video_id] =
                                  Some(UpdatedOutlierRow(row[1], outlier, pr.t0))]
                /\ proc' = [proc EXCEPT ![p] =
                     NextOutlier(LoggedWith(pr, "upsertOutlier", "ok",
                                            outlier.video_id), now)]
         ELSE IF ~pr.existing /\ row = None
           THEN /\ outliers' = [outliers EXCEPT ![outlier.video_id] = Some(outlier)]
                /\ proc' = [proc EXCEPT ![p] =
                     NextOutlier(LoggedWith(pr, "upsertOutlier", "ok",
                                            outlier.video_id), now)]
         \* an insert that hits the unique video_id is rejected
         ELSE /\ UNCHANGED outliers
              /\ proc' = [proc EXCEPT ![p] = UpsertFailed(pr, outlier, now)]
  /\ UNCHANGED <<now, schedulerStore, quotaStore, tracked_channels,
                 video_snapshots, budget>>

\* the store rejects the write
WriteOutlierThrow(p) ==
  /\ proc[p].pc = "writeOutlier"
  /\ Fault
  /\ proc' = [proc EXCEPT ![p] =
       UpsertFailed(proc[p], proc[p].outliers[proc[p].oi], now)]
  /\ UNCHANGED <<now, schedulerStore, quotaStore, tracked_channels,
                 video_snapshots, outliers>>

ToMarkChannelScraped(pr, t) == [pr EXCEPT !.pc = "markChannelScraped", !.t0 = t]

UpdateChannelStatsReturn(p) ==
  /\ proc[p].pc = "updateChannelStats"
  /\ LET pr == proc[p]
         fields == [avg_views |-> pr.avgViews,
                    subscriber_count |-> pr.stats.subscriberCount,
                    total_videos |-> pr.stats.videoCount]
     IN  /\ tracked_channels' =
              UpdateRow(tracked_channels, Channel(pr).channel_id, fields)
         /\ proc' = [proc EXCEPT ![p] =
              ToMarkChannelScraped(Logged(pr, "updateChannelStats", "ok"), now)]
  /\ UNCHANGED <<now, schedulerStore, quotaStore, video_snapshots, outliers, budget>>

\* the store reports an error: updateChannelStats logs it to the console
UpdateChannelStatsError(p) ==
  /\ proc[p].pc = "updateChannelStats"
  /\ Fault
  /\ proc' = [proc EXCEPT ![p] =
       ToMarkChannelScraped(Logged(proc[p], "updateChannelStats", "error"), now)]
  /\ UNCHANGED <<now, schedulerStore, quotaStore, tracked_channels,
                 video_snapshots, outliers>>

\* the call rejects
UpdateChannelStatsThrow(p) ==
  /\ proc[p].pc = "updateChannelStats"
  /\ Fault
  /\ proc' = [proc EXCEPT ![p] =
       ToMarkChannelScraped(
         PushError(Logged(proc[p], "updateChannelStats", "throw"),
                   <<"Channel stats update failed", "store unavailable">>), now)]
  /\ UNCHANGED <<now, schedulerStore, quotaStore, tracked_channels,
                 video_snapshots, outliers>>

MarkChannelScrapedReturn(p) ==
  /\ proc[p].pc = "markChannelScraped"
  /\ LET pr == proc[p]
         fields == [last_scraped_at |-> pr.t0]
     IN  /\ tracked_channels' =
              UpdateRow(tracked_channels, Channel(pr).channel_id, fields)
         /\ SetProc(p, ScrapeEnd(Logged(pr, "markChannelScraped", "ok"),
                                 quotaStore, now, schedulerStore))
  /\ UNCHANGED <<now, quotaStore, video_snapshots, outliers, budget>>

\* the store reports an error: markChannelScraped logs it to the console
MarkChannelScrapedError(p) ==
  /\ proc[p].pc = "markChannelScraped"
  /\ Fault
  /\ SetProc(p, ScrapeEnd(Logged(proc[p], "markChannelScraped", "error"),
                          quotaStore, now, schedulerStore))
  /\ UNCHANGED <<now, quotaStore, tracked_channels, video_snapshots, outliers>>

\* the call rejects: caught by the outer catch of scrapeChannel
MarkChannelScrapedThrow(p) ==
  /\ proc[p].pc = "markChannelScraped"
  /\ Fault
  /\ SetProc(p, ScrapeCatch(Logged(proc[p], "markChannelScraped", "throw"),
                            "store unavailable", quotaStore, now,
                            schedulerStore))
  /\ UNCHANGED <<now, quotaStore, tracked_channels, video_snapshots, outliers>>

\* the 500 ms pause between two channels of scrapeChannels
DelayReturn(p) ==
  /\ proc[p].pc = "delay"
  /\ SetProc(p, NextChannel(proc[p], quotaStore, now, schedulerStore))
  /\ UNCHANGED <<now, quotaStore, tracked_channels, video_snapshots, outliers, budget>>

\* ------------------------------------------------------------------------
\* Actions: the user on the outlier pages, the clock, a page reload
\* ------------------------------------------------------------------------
MarkOutlierViewed(v) ==
  /\ outliers[v] # None
  /\ outliers[v][1].is_new
  /\ outliers' = [outliers EXCEPT ![v] = Some([@[1] EXCEPT !.is_new = FALSE])]
  /\ UNCHANGED <<now, schedulerStore, quotaStore, tracked_channels,
                 video_snapshots, proc, budget>>

UpdateOutlierStatus(v, status) ==
  /\ outliers[v] # None
  /\ outliers[v][1].status # status
  /\ outliers' = [outliers EXCEPT ![v] = Some([@[1] EXCEPT !.status = status])]
  /\ UNCHANGED <<now, schedulerStore, quotaStore, tracked_channels,
                 video_snapshots, proc, budget>>

AdvanceClock ==
  /\ now + TimeStep <= MaxTime
  /\ now' = now + TimeStep
  /\ UNCHANGED <<schedulerStore, quotaStore, tracked_channels, video_snapshots,
                 outliers, proc, budget>>

\* the page is reloaded: every call chain in flight is gone, the stores stay
Reload ==
  /\ \E p \in Procs : proc[p].pc # "idle"
  /\ proc' = [p \in Procs |-> IdleProc]
  /\ UNCHANGED <<now, schedulerStore, quotaStore, tracked_channels,
                 video_snapshots, outliers, budget>>

\* ------------------------------------------------------------------------
\* Specifications
\* ------------------------------------------------------------------------
\* Spec: overlapping call chains (ticks, forced runs, manual scrapes) on
\* channels that have no uploads yet; the fetches and the channel listing
\* can fail.
Init ==
  InitWith(MaxCalls, MaxFaults, {0, 9999},
           <<ChannelRow("c1", TRUE, 8, 100), ChannelRow("c2", FALSE, 5, 0)>>)

Next ==
  \/ \E p \in Procs : StartScheduler(p)
  \/ \E p \in Procs : ForceRunScheduler(p)
  \/ \E p \in Procs : HandleScrapeChannel(p)
  \/ \E p \in Procs : GetChannelsDueReturn(p)
  \/ \E p \in Procs : GetChannelsDueThrow(p)
  \/ \E p \in Procs : FetchChannelStatsReturn(p)
  \/ \E p \in Procs : FetchChannelStatsNull(p)
  \/ \E p \in Procs : FetchChannelVideosThrow(p)
  \/ \E p \in Procs : FetchChannelVideosReturn(p, {0}, {})
  \/ \E p \in Procs : DelayReturn(p)
  \/ AdvanceClock
  \/ Reload

Spec == Init /\ [][Next]_vars

\* the outcomes of the awaited calls of one scrapeChannel call
ScrapeSteps(p, lengths, views) ==
  \/ FetchChannelStatsReturn(p)
  \/ FetchChannelStatsNull(p)
  \/ FetchChannelVideosThrow(p)
  \/ FetchChannelVideosReturn(p, lengths, views)
  \/ GetLatestSnapshotReturn(p)
  \/ GetLatestSnapshotError(p)
  \/ VideoThrow(p)
  \/ AddSnapshotsBulkReturn(p)
  \/ AddSnapshotsBulkThrow(p)
  \/ GetOutlierReturn(p)
  \/ GetOutlierError(p)
  \/ WriteOutlierReturn(p)
  \/ WriteOutlierThrow(p)
  \/ UpdateChannelStatsReturn(p)
  \/ UpdateChannelStatsError(p)
  \/ UpdateChannelStatsThrow(p)
  \/ MarkChannelScrapedReturn(p)
  \/ MarkChannelScrapedError(p)
  \/ MarkChannelScrapedThrow(p)

\* SpecSeq: manual scrapes one after the other, every outcome of every
\* awaited call, and the user acting on the outlier table in between.
InitSeq ==
  InitWith(MaxSeqCalls, MaxSeqFaults, {0, 9999},
           <<ChannelRow("c1", TRUE, 8, 100), ChannelRow("c2", TRUE, 5, 0)>>)

NextSeq ==
  \/ HandleScrapeChannel(1)
  \/ ScrapeSteps(1, 0..MaxVideos, ViewsChoices)
  \/ \E v \in VideoIds : MarkOutlierViewed(v)
  \/ \E v \in VideoIds, st \in StatusChoices : UpdateOutlierStatus(v, st)
  \/ AdvanceClock

SpecSeq == InitSeq /\ [][NextSeq]_vars

\* SpecScrape: one manual scrape of one channel, from a ledger that is
\* fresh, one unit short of its limit or at its limit; every outcome of
\* every awaited call, more than one of them a failure.
InitScrape ==
  InitWith(1, MaxScrapeFaults, {0, 9999, QuotaLimit},
           <<ChannelRow("c1", TRUE, 8, 100), ChannelRow("c2", TRUE, 5, 0)>>)

NextScrape ==
  \/ HandleScrapeChannel(1)
  \/ ScrapeSteps(1, 0..MaxVideos, ViewsChoices)

SpecScrape == InitScrape /\ [][NextScrape]_vars

\* SpecRetry: scheduler sessions one after the other (ticks and forced runs)
\* over a channel whose scrape can stop early or run to its end, every
\* outcome of every awaited call.
NextRetry ==
  \/ StartScheduler(1)
  \/ ForceRunScheduler(1)
  \/ GetChannelsDueReturn(1)
  \/ GetChannelsDueThrow(1)
  \/ ScrapeSteps(1, {0, 1}, {100, 600})
  \/ DelayReturn(1)
  \/ AdvanceClock

SpecRetry == Init /\ [][NextRetry]_vars

\* SpecLong: one manual scrape of a channel whose uploads playlist answers
\* with more items than maxVideosPerChannel (the request asks for 20).
InitLong ==
  InitWith(1, MaxLongFaults, {0}, <<ChannelRow("c1", TRUE, 8, 100)>>)

NextLong ==
  \/ HandleScrapeChannel(1)
  \/ ScrapeSteps(1, {LongListLen}, {100, 600})

SpecLong == InitLong /\ [][NextLong]_vars

\* SpecBatch: one scheduler session (a tick or a forced run) over the due
\* channels, every outcome of every awaited call.
InitBatch ==
  InitWith(MaxBatchCalls, MaxBatchFaults, {0, 9899},
           <<ChannelRow("c1", TRUE, 8, 100), ChannelRow("c2", TRUE, 5, 0)>>)

NextBatch ==
  \/ StartScheduler(1)
  \/ ForceRunScheduler(1)
  \/ GetChannelsDueReturn(1)
  \/ GetChannelsDueThrow(1)
  \/ ScrapeSteps(1, 0..MaxVideos, {600})
  \/ DelayReturn(1)
  \/ AdvanceClock

SpecBatch == InitBatch /\ [][NextBatch]_vars

\* SpecRotate: the scheduler left running for days with a batch size below
\* the number of active channels; every fetch and every store call succeeds
\* and the videos found are ordinary ones (no outlier, nothing stored).  The
\* 5-minute timer fires long before the clock has moved on by TimeStep, so
\* the clock moves on only once the tick due at the current time has run.
\* The program depends on differences of times and on calendar days only:
\* at the end of a day the origin of time is moved forward by one day, which
\* keeps the state space finite.
SessionsPerDay == HoursPerDay \div IntervalHours

ShiftTime(t) == IF t = NoTime THEN NoTime ELSE t - HoursPerDay

ClockToNextTick ==
  /\ \A p \in Procs : proc[p].pc = "idle"
  /\ ~shouldRunScheduler(getSchedulerState(schedulerStore), now)
  /\ now < HoursPerDay
  /\ now' = now + TimeStep
  /\ UNCHANGED <<schedulerStore, quotaStore, tracked_channels, video_snapshots,
                 outliers, proc, budget>>

Rebase ==
  /\ \A p \in Procs : proc[p].pc = "idle"
  /\ now >= HoursPerDay
  /\ now' = now - HoursPerDay
  /\ schedulerStore' =
       IF schedulerStore = None THEN None
       ELSE Some([schedulerStore[1] EXCEPT !.lastRunAt = ShiftTime(@),
                                           !.nextRunAt = ShiftTime(@)])
  /\ quotaStore' =
       IF quotaStore = None THEN None
       ELSE LET usage == quotaStore[1]
            IN  Some([usage EXCEPT
                        !.date = @ - 1,
                        !.operations =
                          [i \in 1..Len(usage.operations) |->
                             [usage.operations[i] EXCEPT
                                !.timestamp = ShiftTime(@)]]])
  /\ tracked_channels' =
       [i \in 1..Len(tracked_channels) |->
          [tracked_channels[i] EXCEPT !.last_scraped_at = ShiftTime(@)]]
  /\ video_snapshots' =
       [i \in 1..Len(video_snapshots) |->
          [video_snapshots[i] EXCEPT !.snapshot_at = ShiftTime(@),
                                     !.published_at = ShiftTime(@)]]
  /\ outliers' =
       [v \in VideoIds |->
          IF outliers[v] = None THEN None
          ELSE Some([outliers[v][1] EXCEPT !.detected_at = ShiftTime(@),
                                           !.last_updated_at = ShiftTime(@)])]
  /\ proc' = [p \in Procs |-> IdleProc]
  /\ budget' = [budget EXCEPT !.calls = SessionsPerDay]

InitRotate ==
  \E prio \in {5, 6} :
    InitWith(SessionsPerDay, 0, {0, 100},
             <<ChannelRow("c1", TRUE, 8, 500), ChannelRow("c2", TRUE, prio, 0)>>)

NextRotate ==
  \/ StartSchedulerWith(1, RotateBatchSize)
  \/ GetChannelsDueReturn(1)
  \/ FetchChannelStatsReturn(1)
  \/ FetchChannelVideosReturn(1, {1}, {100})
  \/ GetLatestSnapshotReturn(1)
  \/ UpdateChannelStatsReturn(1)
  \/ MarkChannelScrapedReturn(1)
  \/ DelayReturn(1)
  \/ ClockToNextTick
  \/ Rebase

SpecRotate == InitRotate /\ [][NextRotate]_vars /\ WF_vars(NextRotate)

\* SpecDue: getChannelsDueForScraping(limit) on tables of three channels
\* drawn from active or not, two priorities, never scraped / scraped one
\* interval ago / scraped an hour ago, and two scrape frequencies.
DueRowChoices(c, t) ==
  {[ChannelRow(c, active, prio, 0) EXCEPT !.last_scraped_at = last,
                                          !.scrape_frequency = frequency] :
     active \in BOOLEAN, prio \in {5, 10}, last \in {NoTime, t - TimeStep, t - 1},
     frequency \in {IntervalHours * SecondsPerHour, SecondsPerHour}}

InitDue ==
  /\ now = TimeStep
  /\ schedulerStore = None
  /\ quotaStore = Some(FreshUsage(now))
  /\ \E r1 \in DueRowChoices("c1", now), r2 \in DueRowChoices("c2", now),
        r3 \in DueRowChoices("c3", now) :
       tracked_channels = <<r1, r2, r3>>
  /\ video_snapshots = <<>>
  /\ outliers = [v \in VideoIds |-> None]
  /\ proc = [p \in Procs |-> IdleProc]
  /\ budget = [calls |-> 1, faults |-> 0]

NextDue ==
  \/ \E limit \in 1..3 : StartSchedulerWith(1, limit)
  \/ GetChannelsDueReturn(1)

SpecDue == InitDue /\ [][NextDue]_vars

\* SpecLedger: the quota ledger on its own, over two days.  The stored
\* record is of yesterday or of today; its log holds the last OperationsCap
\* of the debits that made up used.
LedgerOps == {"channels.list", "playlistItems.list", "videos.update", "search.list"}

LedgerLog(used, t) ==
  LET searches == used \div QUOTA_COSTS("search.list")
      lists == used % QUOTA_COSTS("search.list")
  IN  LastN([i \in 1..(searches + lists) |->
               IF i <= searches
                 THEN [timestamp |-> t, operation |-> "search.list",
                       cost |-> QUOTA_COSTS("search.list")]
                 ELSE [timestamp |-> t, operation |-> "channels.list",
                       cost |-> QUOTA_COSTS("channels.list")]],
            OperationsCap)

InitLedger ==
  /\ now = 0
  /\ schedulerStore = None
  /\ \E day \in {0 - 1, 0}, used \in {0, 9000, 9999, QuotaLimit} :
       quotaStore = Some([date |-> day, used |-> used, limit |-> QuotaLimit,
                          operations |-> LedgerLog(used, day * HoursPerDay)])
  /\ tracked_channels = <<>>
  /\ video_snapshots = <<>>
  /\ outliers = [v \in VideoIds |-> None]
  /\ proc = [p \in Procs |-> IdleProc]
  /\ budget = [calls |-> MaxLedgerOps, faults |-> 0]

TrackQuotaUsage(operation) ==
  /\ budget.calls > 0
  /\ budget' = [budget EXCEPT !.calls = @ - 1]
  /\ quotaStore' = trackQuotaUsage(quotaStore, now, operation)
  /\ UNCHANGED <<now, schedulerStore, tracked_channels, video_snapshots,
                 outliers, proc>>

ResetQuota ==
  /\ quotaStore' = resetQuota(now)
  /\ UNCHANGED <<now, schedulerStore, tracked_channels, video_snapshots,
                 outliers, proc, budget>>

LedgerClock ==
  /\ now < 2 * HoursPerDay
  /\ now' = now + HoursPerDay \div 2
  /\ UNCHANGED <<schedulerStore, quotaStore, tracked_channels, video_snapshots,
                 outliers, proc, budget>>

NextLedger ==
  \/ \E operation \in LedgerOps : TrackQuotaUsage(operation)
  \/ ResetQuota
  \/ LedgerClock

SpecLedger == InitLedger /\ [][NextLedger]_vars

\* SpecScorer: detectOutlier on metrics drawn from a grid that holds no
\* views, no channel average, likes and comments, a video published this
\* very hour, a day ago, days ago and one with a publish time yet to come.
ScorerMetrics(t) ==
  {[videoId |-> "v1", channelId |-> "c1", views |-> views, likes |-> likes,
    comments |-> comments, publishedAt |-> publishedAt,
    channelAvgViews |-> channelAvgViews] :
     views \in {0, 1, 100, 600, 1200}, likes \in {0, 1}, comments \in {0, 1},
     publishedAt \in {t, t - HoursPerDay, t - 100, t + 100},
     channelAvgViews \in {0, 100, 1000}}

InitScorer == InitWith(1, 0, {0}, <<>>)

DetectOutlier(p, metrics) ==
  /\ StartCall(p)
  /\ proc' = [proc EXCEPT ![p].io = <<<<"detectOutlier", metrics, now>>>>,
                          ![p].ret = <<"detectOutlier", detectOutlier(metrics, now)>>]
  /\ UNCHANGED <<now, schedulerStore, quotaStore, tracked_channels,
                 video_snapshots, outliers>>

NextScorer == \E metrics \in ScorerMetrics(now) : DetectOutlier(1, metrics)

SpecScorer == InitScorer /\ [][NextScorer]_vars

\* SpecVelocity: the velocity calculator on histories of up to three
\* snapshots of one video, taken at times that may coincide, with views
\* that rise, stay or fall.
SnapshotChoices ==
  {[video_id |-> "v1", channel_id |-> "c1", views |-> views, likes |-> 0,
    comments |-> 0, published_at |-> 0, engagement_ratio |-> RInt(0),
    velocity_score |-> RInt(0), multiplier |-> RInt(1), outlier_score |-> 1,
    snapshot_at |-> t] :
     views \in {0, 1000, 5000}, t \in {0, 2, 4}}

InitVelocity ==
  /\ now = 0
  /\ schedulerStore = None
  /\ quotaStore = Some(FreshUsage(now))
  /\ tracked_channels = <<>>
  /\ \E history \in UNION {[1..n -> SnapshotChoices] : n \in 1..3} :
       video_snapshots = history
  /\ outliers = [v \in VideoIds |-> None]
  /\ proc = [p \in Procs |-> IdleProc]
  /\ budget = [calls |-> 1, faults |-> 0]

CalculateVelocityBetweenSnapshots(p, newer, older) ==
  /\ StartCall(p)
  /\ proc' = [proc EXCEPT ![p].ret =
       <<"calculateVelocityBetweenSnapshots", newer, older,
         calculateVelocityBetweenSnapshots(video_snapshots[newer],
                                           video_snapshots[older])>>]
  /\ UNCHANGED <<now, schedulerStore, quotaStore, tracked_channels,
                 video_snapshots, outliers>>

CalculateVelocityData(p) ==
  /\ StartCall(p)
  /\ proc' = [proc EXCEPT ![p].ret =
       <<"calculateVelocityData", calculateVelocityData(video_snapshots)>>]
  /\ UNCHANGED <<now, schedulerStore, quotaStore, tracked_channels,
                 video_snapshots, outliers>>

NextVelocity ==
  \/ \E newer, older \in 1..Len(video_snapshots) :
       CalculateVelocityBetweenSnapshots(1, newer, older)
  \/ CalculateVelocityData(1)

SpecVelocity == InitVelocity /\ [][NextVelocity]_vars

\* ------------------------------------------------------------------------
\* Properties
\* ------------------------------------------------------------------------
InSession(p) == proc[p].kind \in {"start", "force"} /\ proc[p].pc # "idle"

\* a scrapeChannel call has handed its result to its caller: to
\* handleScrapeChannel, or to the loop of scrapeChannels (now at its delay)
HasReturned(p) ==
  \/ proc[p].pc = "delay"
  \/ proc[p].pc = "idle" /\ proc[p].ret[1] = "manual"

ReturnedResult(p) == IF proc[p].pc = "delay" THEN proc[p].result ELSE proc[p].ret[3]

ReturnedIo(p) == IF proc[p].pc = "delay" THEN proc[p].io ELSE proc[p].ret[4]

\* the failures that have to show in result.errors, and the entry each
\* of them is reported with
ReportedCalls ==
  {"fetchChannelStats", "fetchChannelVideos", "video", "addSnapshotsBulk",
   "upsertOutlier", "updateChannelStats", "markChannelScraped"}

ErrorKindOf(call) ==
  CASE call = "video" -> "Video"
    [] call = "addSnapshotsBulk" -> "Snapshot insert failed"
    [] call = "upsertOutlier" -> "Outlier upsert failed"
    [] call = "updateChannelStats" -> "Channel stats update failed"
    [] OTHER -> "Scrape failed"

HasError(errors, kind) == \E e \in 1..Len(errors) : errors[e][1] = kind

ErrorsNaming(errors, kind, id) ==
  {e \in 1..Len(errors) : errors[e][1] = kind /\ errors[e][2] = id}

\* C1: at no time are two scraping sessions in flight at once: a tick or a
\* forced run that arrives while a session started earlier has not finished
\* starts no second, overlapping runScrapingSession pass.
C1_NoOverlappingSessions ==
  \A p, q \in Procs : InSession(p) /\ InSession(q) => p = q

\* C2: the daily budget is never exceeded: from a ledger with used <= limit,
\* after any interleaving of sessions and manual scrapes on the same day,
\* used never becomes greater than limit.
C2_BudgetNeverExceeded ==
  getQuotaUsage(quotaStore, now).used <= getQuotaUsage(quotaStore, now).limit

\* C3: scrapeChannel always returns a ScrapeResult and never raises; every
\* failure (quota refusal, fetch failure, per-video failure, snapshot insert,
\* outlier upsert, baseline update, mark-scraped) appears as an entry of
\* result.errors.
C3_EveryFailureIsReported ==
  \A p \in Procs :
    /\ (proc[p].pc = "idle" /\ proc[p].ret[1] = "manual")
         => proc[p].ret[2] = "returned"
    /\ HasReturned(p) =>
         LET result == ReturnedResult(p)
             io == ReturnedIo(p)
         IN  /\ (io = <<>> \/ io[Len(io)][1] # "markChannelScraped")
                  => HasError(result.errors, "Scrape failed")
             /\ \A i \in 1..Len(io) :
                  (io[i][1] \in ReportedCalls /\ io[i][2] # "ok")
                    => HasError(result.errors, ErrorKindOf(io[i][1]))

\* C4: a failure while processing one video adds exactly one error entry
\* naming that video, every other returned video is still processed, and the
\* snapshots and outliers of the other videos are still persisted.
C4_VideoFailureIsIsolated ==
  \A p \in Procs :
    HasReturned(p) =>
      LET result == ReturnedResult(p)
          io == ReturnedIo(p)
          thrown == {i \in 1..Len(io) : io[i][1] = "video"}
          processed == {i \in 1..Len(io) : io[i][1] = "getLatestSnapshot"}
          bulkFailed ==
            \E i \in 1..Len(io) : io[i][1] = "addSnapshotsBulk" /\ io[i][2] = "throw"
          UpsertFailedFor(v) ==
            \E i \in 1..Len(io) :
              io[i][1] = "upsertOutlier" /\ io[i][2] = "throw" /\ io[i][3] = v
      IN  thrown # {} =>
            /\ \A i \in thrown :
                 Cardinality(ErrorsNaming(result.errors, "Video", io[i][3])) = 1
            /\ Cardinality({e \in 1..Len(result.errors) :
                              result.errors[e][1] = "Video"}) = Cardinality(thrown)
            /\ Cardinality(thrown) + Cardinality(processed) = result.videosScraped
            /\ \A i \in processed :
                 LET metrics == io[i][3][1]
                     t == io[i][3][2]
                     scored == detectOutlier(metrics, t)
                 IN  /\ ((scored.isOutlier \/ StoreAllSnapshots) /\ ~bulkFailed)
                          => \E k \in 1..Len(video_snapshots) :
                               /\ video_snapshots[k].video_id = metrics.videoId
                               /\ video_snapshots[k].views = metrics.views
                               /\ video_snapshots[k].snapshot_at = t
                     /\ (/\ scored.outlierScore >= MinOutlierScore
                         /\ ~UpsertFailedFor(metrics.videoId))
                          => /\ outliers[metrics.videoId] # None
                             /\ outliers[metrics.videoId][1].views = metrics.views

\* C4, the case: the first video failed, a later one was processed and its
\* snapshot is in the table
C4_Witness ==
  \E p \in Procs :
    /\ HasReturned(p)
    /\ LET io == ReturnedIo(p)
       IN  \E i, j \in 1..Len(io) :
             /\ i < j
             /\ io[i][1] = "video"
             /\ io[j][1] = "getLatestSnapshot"
             /\ Len(ReturnedResult(p).errors) = 1
             /\ \E k \in 1..Len(video_snapshots) :
                  video_snapshots[k].video_id = io[j][3][1].videoId

\* a session is inside the loop of scrapeChannels
C5_InLoop(pr) ==
  pr.kind \in {"start", "force"} /\ pr.pc \notin {"idle", "getChannelsDue"}

\* results so far are those of the channels before the current one, in order
C5_PrefixInOrder(pr) ==
  /\ pr.ci \in 1..Len(pr.channels)
  /\ Len(pr.results) = (IF pr.pc = "delay" THEN pr.ci ELSE pr.ci - 1)
  /\ \A k \in 1..Len(pr.results) :
       pr.results[k].channelId = pr.channels[k].channel_id
  /\ pr.result.channelId = pr.channels[pr.ci].channel_id

\* C5: scrapeChannels attempts the channels in the order given and its
\* results are those of a prefix of the list; only the check remaining < 100
\* before a channel ends the prefix early, an error in a channel never keeps
\* the following channels from being attempted.
C5_BatchIsPrefixEndedOnlyByFloor ==
  [][\A p \in Procs :
       LET pr == proc[p]
           after == proc'[p]
       IN  /\ C5_InLoop(pr) => C5_PrefixInOrder(pr)
           /\ C5_InLoop(after) => C5_PrefixInOrder(after)
           /\ (pr.pc = "delay" /\ after # pr) =>
                IF /\ Len(pr.results) < Len(pr.channels)
                   /\ getRemainingQuota(quotaStore, now) >= QuotaFloor
                  THEN /\ C5_InLoop(after)
                       /\ after.channels = pr.channels
                       /\ after.ci = pr.ci + 1
                  ELSE /\ after.pc = "idle"
                       /\ schedulerStore' # None
                       /\ schedulerStore'[1].channelsScraped = Len(pr.results)
                       /\ (pr.kind = "force" => after.ret[3] = pr.results)
     ]_vars

\* C5, the case: the first channel's result carries errors and the second
\* channel was scraped all the same
C5_Witness ==
  \E p \in Procs :
    /\ proc[p].pc = "delay"
    /\ Len(proc[p].results) = 2
    /\ proc[p].results[1].errors # <<>>

\* C6: a channel whose video fetch succeeds with zero videos is not reported
\* as an error: its ScrapeResult has an empty errors list.
C6_ZeroVideosIsNoError ==
  \A p \in Procs :
    HasReturned(p) =>
      LET result == ReturnedResult(p)
          io == ReturnedIo(p)
      IN  ((\E i \in 1..Len(io) : io[i][1] = "fetchChannelVideos" /\ io[i][2] = "ok")
           /\ result.videosScraped = 0)
            => result.errors = <<>>

\* C7: upserting an Outlier for a video_id that already has a record updates
\* last_updated_at and the metric fields and leaves detected_at and
\* first_seen_views as the first insert wrote them.
C7_RedetectionKeepsFirstDetection ==
  [][\A p \in Procs :
       (proc[p].pc = "writeOutlier" /\ proc'[p] # proc[p]) =>
         LET outlier == proc[p].outliers[proc[p].oi]
             v == outlier.video_id
         IN  (outliers[v] # None /\ outliers'[v] # outliers[v]) =>
               /\ outliers'[v] # None
               /\ outliers'[v][1].last_updated_at = proc[p].t0
               /\ outliers'[v][1].views = outlier.views
               /\ outliers'[v][1].outlier_score = outlier.outlier_score
               /\ outliers'[v][1].multiplier = outlier.multiplier
               /\ outliers'[v][1].detected_at = outliers[v][1].detected_at
               /\ outliers'[v][1].first_seen_views = outliers[v][1].first_seen_views
     ]_vars

\* C8: a scrape that re-detects a video leaves status, is_new and priority of
\* the existing Outlier, which the user owns, unchanged.
C8_ScrapeLeavesUserStateAlone ==
  [][\A v \in VideoIds :
       (outliers[v] # None /\ proc' # proc) =>
         /\ outliers'[v] # None
         /\ outliers'[v][1].status = outliers[v][1].status
         /\ outliers'[v][1].is_new = outliers[v][1].is_new
         /\ outliers'[v][1].priority = outliers[v][1].priority
     ]_vars

\* C9: when startScheduler has run a session, on its completion (success or
\* throw) the persisted state has isRunning = false and nextRunAt =
\* completion time + intervalHours, and every later tick before that time
\* starts no session.
C9_TickSessionHoldsOffLaterTicks ==
  [][\A p \in Procs :
       /\ (/\ proc'[p].pc = "idle"
           /\ proc'[p].ret[1] = "start"
           /\ proc'[p].ret[2] = "completed"
           /\ (proc[p].pc # "idle" \/ StartScheduler(p)))
            => /\ schedulerStore' # None
               /\ ~schedulerStore'[1].isRunning
               /\ schedulerStore'[1].nextRunAt = now + IntervalHours
       /\ \A q \in Procs :
            (/\ proc[q].pc = "idle"
             /\ proc[q].ret[1] = "start"
             /\ proc[q].ret[2] = "completed"
             /\ now < proc[q].ret[3] + IntervalHours
             /\ StartScheduler(p))
              => /\ proc'[p].pc = "idle"
                 /\ proc'[p].ret = <<"start", "skipped">>
                 /\ UNCHANGED schedulerStore
     ]_vars

\* C10: forceRunScheduler runs a session whatever nextRunAt is, and after it
\* finishes, on success and on failure alike, the persisted nextRunAt is
\* completion time + intervalHours and isRunning is false.
C10_ForcedRunReschedules ==
  [][\A p \in Procs :
       /\ ForceRunScheduler(p)
            => \/ proc'[p].pc = "getChannelsDue"
               \/ proc'[p].ret[1] = "force"
       /\ (/\ proc[p].kind = "force" \/ ForceRunScheduler(p)
           /\ proc'[p].pc = "idle"
           /\ proc'[p].ret[1] = "force")
            => /\ schedulerStore' # None
               /\ ~schedulerStore'[1].isRunning
               /\ schedulerStore'[1].nextRunAt = now + IntervalHours
     ]_vars

\* C11: under repeated sessions (ticks keep firing, quota is sufficient,
\* fetches succeed) every active tracked channel is eventually scraped, also
\* when there are more active channels than batchSize and the channels have
\* different priorities.
C11_EveryActiveChannelEventuallyScraped ==
  <>(\A i \in 1..Len(tracked_channels) :
       tracked_channels[i].is_active
         => tracked_channels[i].last_scraped_at # NoTime)

\* the order of the reference: priority descending, then never scraped
\* first, then last_scraped_at ascending
DueBefore(a, b) ==
  \/ a.scrape_priority > b.scrape_priority
  \/ /\ a.scrape_priority = b.scrape_priority
     /\ \/ a.last_scraped_at = NoTime /\ b.last_scraped_at # NoTime
        \/ /\ a.last_scraped_at # NoTime
           /\ b.last_scraped_at # NoTime
           /\ a.last_scraped_at < b.last_scraped_at

\* result is the first limit rows of the rows the reference keeps, in the
\* reference order (rows that order does not tell apart may come in any
\* order)
IsReferenceDue(result, rows, t, limit) ==
  LET due ==
        {i \in 1..Len(rows) :
           /\ rows[i].is_active
           /\ \/ rows[i].last_scraped_at = NoTime
              \/ (t - rows[i].last_scraped_at) * SecondsPerHour
                   >= rows[i].scrape_frequency}
  IN  /\ Len(result) = IF Cardinality(due) < limit THEN Cardinality(due) ELSE limit
      /\ \A k \in 1..Len(result) : \E i \in due : rows[i] = result[k]
      /\ \A k, l \in 1..Len(result) :
           k # l => result[k].channel_id # result[l].channel_id
      /\ \A k, l \in 1..Len(result) : k < l => ~DueBefore(result[l], result[k])
      /\ \A i \in due :
           (\A k \in 1..Len(result) : result[k] # rows[i])
             => \A k \in 1..Len(result) : ~DueBefore(rows[i], result[k])

C13_DayRollover ==
  /\ [](quotaStore[1].date # getTodayString(now)
          => /\ getQuotaUsage(quotaStore, now).used = 0
             /\ getQuotaUsage(quotaStore, now).operations = <<>>
             /\ getRemainingQuota(quotaStore, now) = QuotaLimit
             /\ \A operation \in LedgerOps : canUseQuota(quotaStore, now, operation))
  /\ [][\A operation \in LedgerOps :
          (TrackQuotaUsage(operation) /\ quotaStore[1].date # getTodayString(now))
            => quotaStore' =
                 Some([date |-> getTodayString(now),
                       used |-> QUOTA_COSTS(operation),
                       limit |-> QuotaLimit,
                       operations |-> <<[timestamp |-> now, operation |-> operation,
                                         cost |-> QUOTA_COSTS(operation)]>>])]_vars
  /\ [][(/\ quotaStore[1].date = getTodayString(now)
          /\ getTodayString(now') = getTodayString(now)
          /\ ~ResetQuota)
           => /\ quotaStore'[1].date = quotaStore[1].date
              /\ quotaStore'[1].used >= quotaStore[1].used]_vars

\* yesterday's ledger with 9000 used has been replaced by the first debit
\* of the new day
C13_Witness ==
  /\ now >= HoursPerDay
  /\ quotaStore[1].date = getTodayString(now)
  /\ quotaStore[1].used = QUOTA_COSTS("search.list")
  /\ Len(quotaStore[1].operations) = 1
  /\ quotaStore[1].operations[1].operation = "search.list"

\* C14: the ledger never blocks or clamps a debit: trackQuotaUsage with
\* used + cost > limit still raises used by cost; afterwards
\* getRemainingQuota is 0 (never negative) and canUseQuota is false for
\* every operation.
C14_DebitIsNeverClamped ==
  /\ [](getRemainingQuota(quotaStore, now) >= 0)
  /\ [][\A operation \in LedgerOps :
          LET usage == getQuotaUsage(quotaStore, now)
          IN  (TrackQuotaUsage(operation)
                 /\ usage.used + QUOTA_COSTS(operation) > usage.limit)
                => /\ quotaStore'[1].used = usage.used + QUOTA_COSTS(operation)
                   /\ getRemainingQuota(quotaStore', now') = 0
                   /\ \A other \in {"videos.list", "channels.list",
                                     "playlistItems.list", "commentThreads.list",
                                     "search.list", "videos.update",
                                     "playlists.insert", "unknown"} :
                        ~canUseQuota(quotaStore', now', other)]_vars

\* a debit has taken used beyond the limit
C14_Witness ==
  /\ quotaStore[1].date = getTodayString(now)
  /\ quotaStore[1].used > quotaStore[1].limit
  /\ budget.calls < MaxLedgerOps

\* C15: after each successful scrapeChannel the stored baseline of the
\* channel is refreshed from that scrape: avg_views, subscriber_count and
\* total_videos are all set to values derived from the statistics fetched in
\* that scrape (the average does not stay at its previous value).
C15_BaselineRefreshedFromScrape ==
  [][\A p \in Procs :
       UpdateChannelStatsReturn(p)
         => \A i \in 1..Len(tracked_channels) :
              tracked_channels[i].channel_id = Channel(proc[p]).channel_id
                => /\ tracked_channels'[i].avg_views =
                        proc[p].stats.viewCount \div proc[p].stats.videoCount
                   /\ tracked_channels'[i].subscriber_count =
                        proc[p].stats.subscriberCount
                   /\ tracked_channels'[i].total_videos = proc[p].stats.videoCount]_vars

\* detectOutlier has been applied by p: proc[p].io[1] holds its argument
\* and its time, proc[p].ret[2] its result
Scored(p) == proc[p].ret[1] = "detectOutlier"

\* C16: for all inputs with views, likes, comments >= 0 and channelAvgViews
\* >= 0 (channelAvgViews = 0, views = 0, zero hours since publish and a
\* publish time in the future included) detectOutlier returns an integer
\* outlierScore with 1 <= outlierScore <= 10.
C16_ScoreWithinOneToTen ==
  \A p \in Procs : Scored(p) => proc[p].ret[2].outlierScore \in 1..10

\* scored: no views, no channel average, published in the future
C16_Witness ==
  /\ Scored(1)
  /\ proc[1].io[1][2].views = 0
  /\ proc[1].io[1][2].channelAvgViews = 0
  /\ proc[1].io[1][2].publishedAt > proc[1].io[1][3]
  /\ proc[1].ret[2].outlierScore = 1

\* C17: of two inputs that differ only in views (same likes, comments,
\* publishedAt, channelAvgViews and time) the one with more views never
\* gets the smaller outlierScore.
C17_ScoreMonotoneInViews ==
  \A p \in Procs :
    Scored(p) =>
      \A more \in ScorerMetrics(proc[p].io[1][3]) :
        (/\ more.views > proc[p].io[1][2].views
         /\ [more EXCEPT !.views = proc[p].io[1][2].views] = proc[p].io[1][2])
          => detectOutlier(more, proc[p].io[1][3]).outlierScore
               >= proc[p].ret[2].outlierScore

\* C18: calculateVelocityBetweenSnapshots(newer, older) is
\* (newer.views - older.views) / hours between the two snapshot_at (1000
\* views at t = 0 and 5000 views two hours later give 2000), and 0 when the
\* two timestamps are identical.
C18_VelocityIsViewsPerHour ==
  \A p \in Procs :
    proc[p].ret[1] = "calculateVelocityBetweenSnapshots" =>
      LET newer == video_snapshots[proc[p].ret[2]]
          older == video_snapshots[proc[p].ret[3]]
          velocity == proc[p].ret[4]
      IN  IF newer.snapshot_at = older.snapshot_at
            THEN velocity = RInt(0)
            ELSE /\ velocity[2] > 0
                 /\ velocity[1] * (newer.snapshot_at - older.snapshot_at)
                      = (newer.views - older.views) * velocity[2]

\* the example of the claim
C18_Witness ==
  /\ proc[1].ret[1] = "calculateVelocityBetweenSnapshots"
  /\ video_snapshots[proc[1].ret[3]].views = 1000
  /\ video_snapshots[proc[1].ret[3]].snapshot_at = 0
  /\ video_snapshots[proc[1].ret[2]].views = 5000
  /\ video_snapshots[proc[1].ret[2]].snapshot_at = 2
  /\ proc[1].ret[4] = RInt(2000)

\* C19: the trend of calculateVelocityData is 'accelerating' only if
\* acceleration > 0.1 * avgVelocity, 'decelerating' only if acceleration <
\* -0.1 * avgVelocity and 'stable' otherwise, in particular whenever the
\* acceleration is 0 (exactly two snapshots), for all histories, those with
\* an average velocity of zero or below included.
C19_TrendClassification ==
  \A p \in Procs :
    (proc[p].ret[1] = "calculateVelocityData" /\ proc[p].ret[2] # None) =>
      LET data == proc[p].ret[2][1]
          tenth == RMul[data.avgVelocity, RNorm[1, 10]]
          minusTenth == RMul[data.avgVelocity, RNorm[0 - 1, 10]]
          above == RLess[tenth, data.acceleration]
          below == RLess[data.acceleration, minusTenth]
      IN  /\ data.trend = "accelerating" => above
          /\ data.trend = "decelerating" => below
          /\ (~above /\ ~below) => data.trend = "stable"
          /\ RIsZero(data.acceleration) => data.trend = "stable"

\* C20: every fetch scrapeChannel issues (the channel statistics, then the
\* video list) is preceded by a canUseQuota check for that operation that
\* returned true, and every issued fetch is followed by exactly one debit of
\* the cost of that operation, also when the fetch fails; a scrape refused
\* at the first check issues no fetch and makes no debit.
C20_FetchesAreCheckedAndDebited ==
  [][\A p \in Procs :
       LET used == getQuotaUsage(quotaStore, now).used
           usedAfter == getQuotaUsage(quotaStore', now').used
       IN  /\ (proc[p].pc # "fetchChannelStats" /\ proc'[p].pc = "fetchChannelStats")
                => canUseQuota(quotaStore, now, "channels.list")
           /\ (proc[p].pc # "fetchChannelVideos" /\ proc'[p].pc = "fetchChannelVideos")
                => canUseQuota(quotaStore', now', "playlistItems.list")
           /\ (proc[p].pc = "fetchChannelStats" /\ proc'[p] # proc[p])
                => usedAfter = used + QUOTA_COSTS("channels.list")
           /\ (proc[p].pc = "fetchChannelVideos" /\ proc'[p] # proc[p])
                => usedAfter = used + QUOTA_COSTS("playlistItems.list")
           /\ (HandleScrapeChannel(p) /\ ~canUseQuota(quotaStore, now, "channels.list"))
                => /\ proc'[p].pc # "fetchChannelStats"
                   /\ quotaStore' = quotaStore]_vars

\* C21: a channel-level failure in scrapeChannel (quota refused, stats
\* fetch returned nothing, video fetch failed) aborts the remaining steps
\* for that channel only: it is recorded in result.errors, no snapshot is
\* inserted, no outlier is upserted, and last_scraped_at, avg_views,
\* subscriber_count and total_videos of the channel stay unchanged.
C21_ChannelFailureAbortsAndWritesNothing ==
  [][\A p \in Procs :
       /\ (proc[p].pc \in {"idle", "fetchChannelStats", "fetchChannelVideos"}
             /\ proc'[p] # proc[p])
            => UNCHANGED <<video_snapshots, outliers, tracked_channels>>
       /\ (proc[p].pc \in {"idle", "fetchChannelStats", "fetchChannelVideos"}
             /\ proc'[p] # proc[p] /\ HasReturned(p)')
            => LET result == ReturnedResult(p)'
                   io == ReturnedIo(p)'
               IN  /\ result.errors # <<>>
                   /\ \A e \in 1..Len(result.errors) :
                        result.errors[e][1] = "Scrape failed"
                   /\ result.snapshotsStored = 0
                   /\ \A i \in 1..Len(io) :
                        io[i][1] \in {"fetchChannelStats", "fetchChannelVideos"}]_vars

\* the video fetch failed after the statistics came: one error, no write
C21_Witness ==
  /\ HasReturned(1)
  /\ Len(ReturnedIo(1)) = 2
  /\ ReturnedIo(1)[2] = <<"fetchChannelVideos", "throw">>
  /\ ReturnedResult(1).errors = <<<<"Scrape failed", "Failed to fetch videos">>>>
  /\ video_snapshots = <<>>
  /\ \A i \in 1..Len(tracked_channels) : tracked_channels[i].last_scraped_at = NoTime

\* C22: persistence failures in scrapeChannel are independent: a failed bulk
\* snapshot insert prevents no outlier upsert and not the baseline update, a
\* failed upsert of one outlier prevents neither the upserts of the others
\* nor the baseline update, a failed baseline update does not undo or
\* discard snapshots and outliers already written; each failure yields its
\* own error entry.
C22_PersistenceFailuresAreIndependent ==
  \A p \in Procs :
    HasReturned(p) =>
      LET result == ReturnedResult(p)
          io == ReturnedIo(p)
          Calls(call) == {i \in 1..Len(io) : io[i][1] = call}
          Failed(call) == {i \in Calls(call) : io[i][2] # "ok"}
          Errors(kind) == {e \in 1..Len(result.errors) : result.errors[e][1] = kind}
      IN  /\ Failed("addSnapshotsBulk") # {}
               => /\ Cardinality(Errors("Snapshot insert failed")) = 1
                  /\ Cardinality(Calls("upsertOutlier")) = result.outliersDetected
                  /\ Calls("updateChannelStats") # {}
          /\ Failed("upsertOutlier") # {}
               => /\ \A i \in Failed("upsertOutlier") :
                       Cardinality(ErrorsNaming(result.errors,
                                                "Outlier upsert failed", io[i][3])) = 1
                  /\ Cardinality(Calls("upsertOutlier")) = result.outliersDetected
                  /\ Calls("updateChannelStats") # {}
          /\ Failed("updateChannelStats") # {}
               => /\ Cardinality(Errors("Channel stats update failed")) = 1
                  /\ Len(video_snapshots) = result.snapshotsStored
                  /\ \A i \in Calls("upsertOutlier") :
                       io[i][2] = "ok" => outliers[io[i][3]] # None

\* C23: every outlier record the orchestrator upserts has outlier_score >=
\* minOutlierScore (6 by default) at the time of the upsert, and a processed
\* video is upserted if and only if its outlierScore >= minOutlierScore: a
\* video that is an outlier only through multiplier >= 3, with a score below
\* the cutoff, is not upserted.
C23_UpsertIffScoreAtLeastCutoff ==
  /\ \A v \in VideoIds :
       outliers[v] # None => outliers[v][1].outlier_score >= MinOutlierScore
  /\ \A p \in Procs :
       HasReturned(p) =>
         LET io == ReturnedIo(p)
         IN  \A i \in 1..Len(io) :
               io[i][1] = "getLatestSnapshot" =>
                 ((\E j \in 1..Len(io) :
                     io[j][1] = "upsertOutlier" /\ io[j][3] = io[i][3][1].videoId)
                  <=> detectOutlier(io[i][3][1], io[i][3][2]).outlierScore
                        >= MinOutlierScore)

\* a video with multiplier >= 3 and a score below the cutoff was processed
\* next to one above the cutoff: only the latter is in the outliers table
C23_Witness ==
  /\ HasReturned(1)
  /\ \E i, k \in 1..Len(ReturnedIo(1)) :
       /\ ReturnedIo(1)[i][1] = "getLatestSnapshot"
       /\ ReturnedIo(1)[k][1] = "getLatestSnapshot"
       /\ LET low == detectOutlier(ReturnedIo(1)[i][3][1], ReturnedIo(1)[i][3][2])
              high == detectOutlier(ReturnedIo(1)[k][3][1], ReturnedIo(1)[k][3][2])
          IN  /\ low.isOutlier
              /\ low.outlierScore < MinOutlierScore
              /\ outliers[low.videoId] = None
              /\ high.outlierScore >= MinOutlierScore
              /\ outliers[high.videoId] # None

\* C24: a snapshot is part of the bulk insert if and only if detectOutlier
\* flagged the video isOutlier (score >= 6 or multiplier >= 3) or
\* storeAllSnapshots is set; with the default options no snapshot of a video
\* that is not an outlier is written, and snapshotsStored is 0 or the number
\* of qualifying videos.
C24_OnlyFlaggedSnapshotsAreInserted ==
  /\ \A k \in 1..Len(video_snapshots) :
       \/ StoreAllSnapshots
       \/ video_snapshots[k].outlier_score >= 6
       \/ RLeq[RInt(3), video_snapshots[k].multiplier]
  /\ \A p \in Procs :
       HasReturned(p) =>
         LET io == ReturnedIo(p)
             qualifying ==
               {i \in 1..Len(io) :
                  /\ io[i][1] = "getLatestSnapshot"
                  /\ \/ detectOutlier(io[i][3][1], io[i][3][2]).isOutlier
                     \/ StoreAllSnapshots}
             failed == \E i \in 1..Len(io) : io[i] = <<"addSnapshotsBulk", "throw">>
         IN  /\ ReturnedResult(p).snapshotsStored \in {0, Cardinality(qualifying)}
             /\ ReturnedResult(p).snapshotsStored = Len(video_snapshots)
             /\ failed => video_snapshots = <<>>
             /\ ~failed =>
                  /\ Len(video_snapshots) = Cardinality(qualifying)
                  /\ {video_snapshots[k].video_id : k \in 1..Len(video_snapshots)}
                       = {io[i][3][1].videoId : i \in qualifying}

\* two videos were processed, one flagged and one not, and the table holds
\* the snapshot of the flagged one only
C24_Witness ==
  /\ HasReturned(1)
  /\ ReturnedResult(1).videosScraped = 2
  /\ ReturnedResult(1).snapshotsStored = 1
  /\ Len(video_snapshots) = 1
  /\ \E i \in 1..Len(ReturnedIo(1)) :
       /\ ReturnedIo(1)[i][1] = "getLatestSnapshot"
       /\ ~detectOutlier(ReturnedIo(1)[i][3][1], ReturnedIo(1)[i][3][2]).isOutlier
       /\ \A k \in 1..Len(video_snapshots) :
            video_snapshots[k].video_id # ReturnedIo(1)[i][3][1].videoId

\* C25: a scrape processes at most maxVideosPerChannel videos (5 by
\* default): whatever list the video source returns, videosScraped <=
\* maxVideosPerChannel and no more than that many videos are scored.
C25_AtMostMaxVideosPerChannel ==
  \A p \in Procs :
    HasReturned(p) =>
      /\ ReturnedResult(p).videosScraped <= MaxVideosPerChannel
      /\ Cardinality({i \in 1..Len(ReturnedIo(p)) :
                        ReturnedIo(p)[i][1] = "getLatestSnapshot"})
           <= MaxVideosPerChannel

\* C26: a startScheduler tick that finds nextRunAt set and now < nextRunAt is
\* a no-op: it starts no session, fetches nothing, debits nothing and leaves
\* the persisted scheduler state (isRunning, lastRunAt, nextRunAt, counters,
\* errors) as it was; a tick that finds nextRunAt = null always runs.
C26_EarlyTickIsNoOp ==
  [][\A p \in Procs :
       StartScheduler(p) =>
         LET state == getSchedulerState(schedulerStore)
         IN  /\ (state.nextRunAt # NoTime /\ now < state.nextRunAt)
                  => /\ proc'[p].pc = "idle"
                     /\ proc'[p].ret = <<"start", "skipped">>
                     /\ \A q \in Procs \ {p} : proc'[q] = proc[q]
                     /\ UNCHANGED <<schedulerStore, quotaStore, tracked_channels,
                                    video_snapshots, outliers>>
             /\ state.nextRunAt = NoTime
                  => /\ schedulerStore' # None
                     /\ \/ /\ proc'[p].pc = "getChannelsDue"
                           /\ schedulerStore'[1].isRunning
                        \/ /\ proc'[p].pc = "idle"
                           /\ proc'[p].ret = <<"start", "completed", now>>
                           /\ schedulerStore'[1].errors = <<"Insufficient quota">>
     ]_vars

\* a tick came before the time a finished session had set: it was skipped
\* and the stored state still carries that time
C26_Witness ==
  /\ proc[1].pc = "idle"
  /\ proc[1].ret = <<"start", "skipped">>
  /\ schedulerStore # None
  /\ schedulerStore[1].nextRunAt # NoTime
  /\ now < schedulerStore[1].nextRunAt
  /\ ~schedulerStore[1].isRunning

\* C27: ScrapeResult.quotaUsed equals the total cost of the debits made
\* during that scrapeChannel call (0, 1 or 2) and is never negative, in every
\* execution: with the ledger at or beyond the limit, with the calendar day
\* rolling over during the scrape, with another scrape debiting concurrently.
C27_QuotaUsedIsOwnDebits ==
  \A p \in Procs :
    HasReturned(p) =>
      LET io == ReturnedIo(p)
          stats == {i \in 1..Len(io) : io[i][1] = "fetchChannelStats"}
          lists == {i \in 1..Len(io) : io[i] = <<"fetchChannelVideos", "ok">>}
          debits == Cardinality(stats) * QUOTA_COSTS("channels.list")
                      + Cardinality(lists) * QUOTA_COSTS("playlistItems.list")
      IN  /\ ReturnedResult(p).quotaUsed >= 0
          /\ ReturnedResult(p).quotaUsed = debits
          /\ debits \in 0..2

\* C28: once the video fetch has returned at least one video, scrapeChannel
\* stamps last_scraped_at at the end of the run whatever happened in between
\* (every video failed, the bulk insert failed, every upsert failed), the
\* stamp is the last store write of the scrape, and so the channel is not due
\* again until its refresh interval has elapsed.
C28_ScrapedChannelIsStamped ==
  \A p \in Procs :
    (HasReturned(p) /\ ReturnedResult(p).videosScraped >= 1) =>
      LET io == ReturnedIo(p)
      IN  /\ io[Len(io)][1] = "markChannelScraped"
          /\ \A i \in 1..Len(tracked_channels) :
               tracked_channels[i].channel_id = ReturnedResult(p).channelId =>
                 /\ tracked_channels[i].last_scraped_at = now
                 /\ \A t \in now..(now + IntervalHours - 1) :
                      ~IsDue(tracked_channels[i], t)

C30_VelocityScoreWithinZeroToTen ==
  /\ \A k \in 1..Len(video_snapshots) :
       /\ RLeq[RInt(0), video_snapshots[k].velocity_score]
       /\ RLeq[video_snapshots[k].velocity_score, RInt(10)]
  /\ \A v \in VideoIds :
       outliers[v] # None =>
         /\ RLeq[RInt(0), outliers[v][1].velocity_score]
         /\ RLeq[outliers[v][1].velocity_score, RInt(10)]

====
